---- MODULE Spec2Model ----
(***************************************************************************)
(* Model of src/app.py, the share-page conversation extractor:             *)
(*   _host_ok / _safe_fetch   SSRF-guarded fetch                           *)
(*   _read_text               bounded streaming read                       *)
(*   _strip_html / _post_clean  text normalisation                         *)
(*   extract_messages_html / _plain / _json / _any   the fallback chain    *)
(*   api_extract              the /api/extract handler                     *)
(*                                                                         *)
(* Strings are sequences of tokens.  A token is a fixed literal piece of   *)
(* text (one character such as "<", or a longer literal such as the role   *)
(* marker attribute); the table below gives every token's literal.  The    *)
(* regular expressions of the source are translated to scans over tokens, using    *)
(* for each token the properties of its literal that the expression reads  *)
(* (does it start with "<", does it contain ">", is it whitespace, its     *)
(* length in characters, the keywords it contains).                        *)
(***************************************************************************)
EXTENDS Integers, Sequences, FiniteSets, TLC

VARIABLES
    raw_html,       \* the document handed to the extractor
    pc,             \* position of the running handler / function
    a, b, c,        \* extract_messages_any: results of strategies A, B, C
    pairs,          \* api_extract: the list extract_messages_any returned
    response,       \* api_extract: the JSON response and its status
    host,           \* _safe_fetch: hostname of the url
    scheme,         \* _safe_fetch: scheme of the url
    ALLOWED_HOSTS,  \* configuration: None or a set of host names
    dns,            \* what getaddrinfo answers for the host
    sent,           \* hosts to which an HTTP request has been sent
    MAX_BYTES,      \* configuration: byte ceiling of _read_text
    body,           \* _read_text: chunks the stream still holds (or endless)
    total,          \* _read_text: local total
    chunks,         \* _read_text: lengths of the chunks appended so far
    text0, text1, text2   \* normaliser input, one application, two applications

vars == << raw_html, pc, a, b, c, pairs, response, host, scheme, ALLOWED_HOSTS, dns,
           sent, MAX_BYTES, body, total, chunks, text0, text1, text2 >>


(***************************************************************************)
(* Tokens and the properties of their literals.                            *)
(***************************************************************************)
(*  token     literal
    lt        <
    gt        >
    sp        (one space)
    nl        (one newline)
    amp       &
    e_lt      &lt;
    e_gt      &gt;
    e_amp     &amp;
    e_amplt   &amp;lt;
    div       div
    hi        hi
    para      This is a long paragraph of text!
    parb      Another paragraph with its words.
    paraA     the assistant says hello there ok
    paraU     the user says hello there ok no
    paraAU    an assistant answers the user !
    MU        data-message-author-role="user"
    MA        data-message-author-role="assistant"
    MUC       data-message-author-role="USER"
    so        <script>
    sc        </script>
    sto       <style>
    stc       </style>
    jrU       {"role":"user"
    jrA       {"role":"assistant"
    jrX       {"role":"USER"
    jcX       ,"content":"This is a long paragraph of text!"
    jcY       ,"content":"hi"
    jcE       ,"content":""
    jcP       ,"content":{"parts":["hi"]}
    jcT       ,"content":"&lt;div&gt;"
    jcBad     ,"content":{"parts":[}
    jvBad     {"parts":[}
    hr        ---
    hdr       #1
    labU      U+7528 U+6237 U+FF1A   (the label "user", full-width colon)
    labA      U+52A9 U+624B U+FF1A   (the label "assistant", full-width colon)
    grpU      U+7528 U+6237          (labU without its colon)
    grpA      U+52A9 U+624B          (labA without its colon)
    copy      Copy link
    regen     Regenerate
    cgs       ChatGPT U+8BF4 U+FF1A  (the "ChatGPT said:" banner)
*)

\* len(): the number of characters of the literal
CharLen(t) ==
    CASE t \in {"lt", "gt", "sp", "nl", "amp"} -> 1
      [] t \in {"e_lt", "e_gt"} -> 4
      [] t = "e_amp"  -> 5
      [] t = "e_amplt" -> 8
      [] t = "div"    -> 3
      [] t = "hi"     -> 2
      [] t \in {"para", "parb", "paraA"} -> 33
      [] t \in {"paraU", "paraAU"} -> 31
      [] t \in {"MU", "MUC"} -> 31
      [] t = "MA"     -> 36
      [] t = "so"     -> 8
      [] t = "sc"     -> 9
      [] t = "sto"    -> 7
      [] t = "stc"    -> 8
      [] t \in {"jrU", "jrX"} -> 14
      [] t = "jrA"    -> 19
      [] t = "jcX"    -> 46
      [] t = "jcY"    -> 15
      [] t = "jcE"    -> 13
      [] t = "jcP"    -> 27
      [] t = "jcT"    -> 24
      [] t = "jcBad"  -> 22
      [] t = "jvBad"  -> 11
      [] t = "hr"     -> 3
      [] t = "hdr"    -> 2
      [] t \in {"labU", "labA"} -> 3
      [] t \in {"grpU", "grpA"} -> 2
      [] t = "copy"   -> 9
      [] t = "regen"  -> 10
      [] t = "cgs"    -> 10

RECURSIVE StrLen(_)
StrLen(s) == IF s = << >> THEN 0 ELSE CharLen(Head(s)) + StrLen(Tail(s))

Space == {"sp", "nl"}                         \* \s, str.strip()
IsSpace(t) == t \in Space
WholeTag(t) == t \in {"so", "sc", "sto", "stc"}   \* "<" ... ">" in one literal
WithGt == {"gt", "so", "sc", "sto", "stc"}    \* the literals that contain ">"
HasGt(t) == t \in WithGt

Min(S) == CHOOSE x \in S : \A y \in S : x <= y
Max(S) == CHOOSE x \in S : \A y \in S : x >= y

\* first index k in from..Len(s) with s[k] in T, 0 when there is none
FindFrom(s, from, T) ==
    LET hits == { k \in from..Len(s) : s[k] \in T }
    IN  IF hits = {} THEN 0 ELSE Min(hits)

\* first index k in from..Len(s) with s[k] not in T, 0 when there is none
FindNotFrom(s, from, T) ==
    LET hits == { k \in from..Len(s) : s[k] \notin T }
    IN  IF hits = {} THEN 0 ELSE Min(hits)

Slice(s, i, j) == IF i > j THEN << >> ELSE SubSeq(s, i, j)   \* s[i-1:j]
From(s, i) == Slice(s, i, Len(s))

RECURSIVE Flatten(_)
Flatten(ss) == IF ss = << >> THEN << >> ELSE Head(ss) \o Flatten(Tail(ss))

(***************************************************************************)
(* _strip_html                                                             *)
(***************************************************************************)
\* re.sub(r"<script[^>]*>.*?</script>", "", chunk): every opening literal
\* with the first closing literal after it is removed, left to right.
RECURSIVE RemoveBlocks(_, _, _)
RemoveBlocks(s, open, close) ==
    LET i == FindFrom(s, 1, { open })
        j == IF i = 0 THEN 0 ELSE FindFrom(s, i + 1, { close })
    IN  IF i = 0 \/ j = 0 THEN s
        ELSE Slice(s, 1, i - 1) \o RemoveBlocks(From(s, j + 1), open, close)

\* re.sub(r"<[^>]+>", "", chunk): from a "<", at least one character that is
\* not ">", then the first ">".  "<" directly followed by ">" is no match.
RECURSIVE StripTags(_)
StripTags(s) ==
    IF s = << >> THEN << >>
    ELSE IF WholeTag(Head(s)) THEN StripTags(Tail(s))
    ELSE IF Head(s) = "lt" THEN
        LET j == FindFrom(s, 2, WithGt)
        IN  IF j = 0 THEN s
            ELSE IF j = 2 /\ s[2] = "gt" THEN << "lt" >> \o StripTags(Tail(s))
            ELSE StripTags(From(s, j + 1))
    ELSE << Head(s) >> \o StripTags(Tail(s))

\* html.unescape: one pass over the character references
UnescapeTok(t) ==
    CASE t = "e_lt"    -> "lt"
      [] t = "e_gt"    -> "gt"
      [] t = "e_amp"   -> "amp"
      [] t = "e_amplt" -> "e_lt"
      [] OTHER         -> t

Unescape(s) == [i \in 1..Len(s) |-> UnescapeTok(s[i])]

\* re.sub(r"[ \t]+", " ", chunk)
RECURSIVE CollapseSpaces(_)
CollapseSpaces(s) ==
    IF Len(s) < 2 THEN s
    ELSE IF s[1] = "sp" /\ s[2] = "sp" THEN CollapseSpaces(Tail(s))
    ELSE << Head(s) >> \o CollapseSpaces(Tail(s))

\* re.sub(r"\n{3,}", "\n\n", chunk)
RECURSIVE CollapseNewlines(_)
CollapseNewlines(s) ==
    IF Len(s) < 3 THEN s
    ELSE IF s[1] = "nl" /\ s[2] = "nl" /\ s[3] = "nl" THEN CollapseNewlines(Tail(s))
    ELSE << Head(s) >> \o CollapseNewlines(Tail(s))

\* str.strip(chars): drop the leading and trailing characters that are in chars
LStrip(s, chars) ==
    LET keep == { k \in 1..Len(s) : s[k] \notin chars }
    IN  IF keep = {} THEN << >> ELSE From(s, Min(keep))

RStrip(s, chars) ==
    LET keep == { k \in 1..Len(s) : s[k] \notin chars }
    IN  IF keep = {} THEN << >> ELSE Slice(s, 1, Max(keep))

Strip(s, chars) == RStrip(LStrip(s, chars), chars)

_strip_html(chunk) ==
    LET c1 == RemoveBlocks(chunk, "so", "sc")
        c2 == RemoveBlocks(c1, "sto", "stc")
        c3 == StripTags(c2)
        c4 == Unescape(c3)
        c5 == CollapseSpaces(c4)
        c6 == CollapseNewlines(c5)
    IN  Strip(c6, Space)

(***************************************************************************)
(* _post_clean                                                             *)
(***************************************************************************)
\* index of the last character of the line that holds index i
LineEnd(s, i) ==
    LET n == FindFrom(s, i, { "nl" })
    IN  IF n = 0 THEN Len(s) ELSE n - 1

\* re.sub(r"ChatGPT\s*...:.*", "", text): from the banner to the end of its line
RECURSIVE RemoveBanner(_)
RemoveBanner(s) ==
    LET i == FindFrom(s, 1, { "cgs" })
    IN  IF i = 0 THEN s
        ELSE Slice(s, 1, i - 1) \o RemoveBanner(From(s, LineEnd(s, i) + 1))

\* Where a match of (?m)^\s*<phrase>.*$ that has the phrase at index i starts,
\* searching from index from: the earliest start of a line from which only
\* whitespace precedes the phrase; 0 when the phrase does not head a line.
NoiseStart(s, from, i) ==
    LET starts == { p \in from..i : /\ (p = 1 \/ s[p - 1] = "nl")
                                    /\ \A k \in p..(i - 1) : IsSpace(s[k]) }
    IN  IF starts = {} THEN 0
        ELSE Min(starts)

\* re.sub(r"(?mi)^\s*<phrase>.*$", "", text), the scan standing at index from
RECURSIVE RemoveNoiseFrom(_, _, _)
RemoveNoiseFrom(s, phrase, from) ==
    LET hits == { i \in from..Len(s) : s[i] = phrase /\ NoiseStart(s, from, i) # 0 }
    IN  IF hits = {} THEN From(s, from)
        ELSE LET i == Min(hits)
             IN  Slice(s, from, NoiseStart(s, from, i) - 1)
                    \o RemoveNoiseFrom(s, phrase, LineEnd(s, i) + 1)

RemoveNoiseLines(s, phrase) == RemoveNoiseFrom(s, phrase, 1)

_post_clean(text) ==
    LET t1 == RemoveBanner(text)
        t2 == RemoveNoiseLines(t1, "copy")
        t3 == RemoveNoiseLines(t2, "regen")
        t4 == Strip(t3, {"sp", "lt", "gt"})
    IN  Strip(t4, Space)

(***************************************************************************)
(* extract_messages_html  (strategy A)                                     *)
(***************************************************************************)
\* ROLE_MARKER, re.I: the literal matches with any letter case of the role
Markers == {"MU", "MA", "MUC"}
IsMarker(t) == t \in Markers

\* m.group(1): the role as written in the document
MarkerGroup(t) ==
    CASE t = "MU"  -> "user"
      [] t = "MA"  -> "assistant"
      [] t = "MUC" -> "USER"

Lower_identity(r) == r
\* str.lower()
Lower(r) == IF r = "USER" THEN "user" ELSE IF r = "ASSISTANT" THEN "assistant" ELSE r

\* One turn of the while loop, for the marker at index i: the indices
\* start_content and end_content.  Without any ">" after the marker,
\* start_content is one character past the marker's end; the input sets
\* hold only a one-character literal (or nothing) at that place.
StartContent(raw, i) ==
    LET tag_close == FindFrom(raw, i + 1, WithGt)
    IN  IF tag_close = 0 THEN i + 2 ELSE tag_close + 1

EndContent_to_eof(raw, start_content) == Len(raw) + 1
\* next_m = ROLE_MARKER.search(raw_html, start_content); end_content
EndContent(raw, start_content) ==
    LET next_m == FindFrom(raw, start_content, Markers)
    IN  IF next_m = 0 THEN Len(raw) + 1 ELSE next_m

RECURSIVE HtmlLoop(_, _, _)
HtmlLoop(raw, pos, results) ==
    LET i == FindFrom(raw, pos, Markers)
    IN  IF i = 0 THEN results
        ELSE LET role == Lower(MarkerGroup(raw[i]))
                 start_content == StartContent(raw, i)
                 end_content == EndContent(raw, start_content)
                 chunk == Slice(raw, start_content, end_content - 1)
                 text == _post_clean(_strip_html(chunk))
             IN  HtmlLoop(raw, end_content,
                          IF text # << >>
                          THEN Append(results, [role |-> role, text |-> text])
                          ELSE results)

extract_messages_html(raw) == HtmlLoop(raw, 1, << >>)

(***************************************************************************)
(* extract_messages_plain  (strategy B)                                    *)
(***************************************************************************)
MIN_TEXT == 50      \* len(txt) < 50: nothing to extract
MIN_BLOCK == 8      \* len(b) < 8: the block is dropped

\* An item of the list re.split returns: a piece of text, or None (the
\* capturing group of an alternative that did not take part in the match).
Piece(s) == [none |-> FALSE, s |-> s]
NoGroup == [none |-> TRUE, s |-> << >>]

\* The separator expression
\*     \n-{2,}\n | ^\s*#\d+\s*$ | ^\s*(label)[::]\s*$      (re.M | re.I)
\* tried at index q: [end |-> last index of the match, group |-> item], or
\* end = 0 when no alternative matches at q.
LineStart(s, q) == q = 1 \/ s[q - 1] = "nl"

\* \s*$ after index h: the longest run of whitespace after which a line ends
TrailEnd(s, h) ==
    LET w == FindNotFrom(s, h + 1, Space)
        last == IF w = 0 THEN Len(s) ELSE w - 1
        ends == { e \in h..last : e = Len(s) \/ s[e + 1] = "nl" }
    IN  IF ends = {} THEN 0 ELSE Max(ends)

SepAt(s, q) ==
    LET r == FindNotFrom(s, q + 1, { "hr" })     \* after the dashes
        h == FindNotFrom(s, q, Space)      \* after ^\s*
    IN  IF s[q] = "nl" /\ q < Len(s) /\ s[q + 1] = "hr" /\ r # 0 /\ s[r] = "nl"
        THEN [end |-> r, group |-> NoGroup]
        ELSE IF LineStart(s, q) /\ h # 0 /\ s[h] = "hdr" /\ TrailEnd(s, h) # 0
        THEN [end |-> TrailEnd(s, h), group |-> NoGroup]
        ELSE IF LineStart(s, q) /\ h # 0 /\ s[h] \in {"labU", "labA"} /\ TrailEnd(s, h) # 0
        THEN [end |-> TrailEnd(s, h),
              group |-> Piece(<< IF s[h] = "labU" THEN "grpU" ELSE "grpA" >>)]
        ELSE [end |-> 0, group |-> NoGroup]

\* re.split(separators, txt), the scan standing at index p
RECURSIVE SplitSeparators(_, _)
SplitSeparators(s, p) ==
    LET hits == { q \in p..Len(s) : SepAt(s, q).end # 0 }
    IN  IF hits = {} THEN << Piece(From(s, p)) >>
        ELSE LET q == Min(hits)
                 m == SepAt(s, q)
             IN  << Piece(Slice(s, p, q - 1)), m.group >>
                    \o SplitSeparators(s, m.end + 1)

\* re.split(r"\n{2,}", txt), the scan standing at index p
RECURSIVE SplitBlankLines(_, _)
SplitBlankLines(s, p) ==
    LET hits == { q \in p..(Len(s) - 1) : s[q] = "nl" /\ s[q + 1] = "nl" }
    IN  IF hits = {} THEN << Piece(From(s, p)) >>
        ELSE LET q == Min(hits)
                 r == FindNotFrom(s, q, { "nl" })
             IN  << Piece(Slice(s, p, q - 1)) >>
                    \o SplitBlankLines(s, IF r = 0 THEN Len(s) + 1 ELSE r)

Blocks(txt) ==
    LET blocks == SplitSeparators(txt, 1)
    IN  IF Len(blocks) < 2 THEN SplitBlankLines(txt, 1) ELSE blocks

\* re.search(r"\bassistant\b|<label>", b, re.I), re.search(r"\buser\b|<label>", b, re.I)
SaysAssistant(bl) ==
    \E k \in 1..Len(bl) : bl[k] \in {"paraA", "paraAU", "MA", "jrA", "labA", "grpA"}
SaysUser(bl) ==
    \E k \in 1..Len(bl) : bl[k] \in {"paraU", "paraAU", "MU", "MUC", "jrU", "jrX", "labU", "grpU"}

Other(role) == IF role = "user" THEN "assistant" ELSE "user"

\* The role a block is emitted with, given current_role before it
BlockRole(bl, current_role) ==
    IF SaysAssistant(bl) THEN "assistant"
    ELSE IF SaysUser(bl) THEN "user"
    ELSE current_role

AfterEmit_toggle_lost(role) == role
\* current_role after a block has been emitted with role
AfterEmit(role) == Other(role)

\* The for loop over blocks[k..]: [raised, results].  b.strip() on None
\* raises AttributeError, which nothing in the function catches.
RECURSIVE PlainLoop(_, _, _, _)
PlainLoop(blocks, k, current_role, results) ==
    IF k > Len(blocks) THEN [raised |-> FALSE, results |-> results]
    ELSE IF blocks[k].none THEN [raised |-> TRUE, results |-> results]
    ELSE LET bl == Strip(blocks[k].s, Space)
         IN  IF bl = << >> \/ StrLen(bl) < MIN_BLOCK
             THEN PlainLoop(blocks, k + 1, current_role, results)
             ELSE LET role == BlockRole(bl, current_role)
                  IN  PlainLoop(blocks, k + 1, AfterEmit(role),
                                Append(results, [role |-> role, text |-> bl]))

\* [raised |-> an exception left the function, results |-> the list returned]
extract_messages_plain(raw) ==
    LET txt == _strip_html(raw)
    IN  IF txt = << >> \/ StrLen(txt) < MIN_TEXT
        THEN [raised |-> FALSE, results |-> << >>]
        ELSE LET r == PlainLoop(Blocks(txt), 1, "user", << >>)
             IN  IF r.raised THEN [raised |-> TRUE, results |-> << >>]
                 ELSE [raised |-> FALSE,
                       results |-> IF Len(r.results) >= 2 THEN r.results ELSE << >>]

(***************************************************************************)
(* extract_messages_json  (strategy C)                                     *)
(***************************************************************************)
MAX_GAP == 2000     \* .{0,2000}? between the role and "content"

\* re.findall(r"<script[^>]*>(.*?)</script>", raw_html): the script bodies
RECURSIVE Scripts(_)
Scripts(s) ==
    LET i == FindFrom(s, 1, { "so" })
        j == IF i = 0 THEN 0 ELSE FindFrom(s, i + 1, { "sc" })
    IN  IF i = 0 \/ j = 0 THEN << >>
        ELSE << Slice(s, i + 1, j - 1) >> \o Scripts(From(s, j + 1))

\* {"role":"user" or {"role":"assistant", matched in exact letter case
IsJsonRole(t) == t \in {"jrU", "jrA"}
JsonRole(t) == IF t = "jrU" THEN "user" ELSE "assistant"
JsonContents == {"jcX", "jcY", "jcE", "jcP", "jcT", "jcBad"}
IsJsonContent(t) == t \in JsonContents

\* The text taken from the matched content: json.loads and the str / list /
\* dict cases, or, when json.loads raises, the fragment itself unquoted.
ContentText(t) ==
    CASE t = "jcX"   -> << "para" >>
      [] t = "jcY"   -> << "hi" >>
      [] t = "jcE"   -> << >>
      [] t = "jcP"   -> << "hi" >>
      [] t = "jcT"   -> << "e_lt", "div", "e_gt" >>
      [] t = "jcBad" -> << "jvBad" >>

\* re.finditer over one script body, the scan standing at index p
RECURSIVE JsonMatches(_, _)
JsonMatches(sc, p) ==
    LET hits == { i \in p..Len(sc) :
                    /\ IsJsonRole(sc[i])
                    /\ LET j == FindFrom(sc, i + 1, JsonContents)
                       IN  j # 0 /\ StrLen(Slice(sc, i + 1, j - 1)) + 1 <= MAX_GAP }
    IN  IF hits = {} THEN << >>
        ELSE LET i == Min(hits)
                 j == FindFrom(sc, i + 1, JsonContents)
                 text == _post_clean(_strip_html(ContentText(sc[j])))
             IN  (IF text # << >>
                  THEN << [role |-> JsonRole(sc[i]), text |-> text] >>
                  ELSE << >>)
                 \o JsonMatches(sc, j + 1)

RECURSIVE JsonScripts(_)
JsonScripts(scripts) ==
    IF scripts = << >> THEN << >>
    ELSE (IF \E k \in 1..Len(Head(scripts)) : IsJsonRole(Head(scripts)[k])
          THEN JsonMatches(Head(scripts), 1)
          ELSE << >>)
         \o JsonScripts(Tail(scripts))

extract_messages_json(raw) == JsonScripts(Scripts(raw))

(***************************************************************************)
(* extract_messages_any and api_extract, from the fetched document on.     *)
(* pc: "start" -> "triedA" -> "triedB" -> "respond" -> "done"; a strategy  *)
(* that is accepted goes to "respond" directly, an exception to "done".    *)
(***************************************************************************)
MaxFrags == 3       \* a document is at most this many fragments

\* Pieces of share pages, of scripts and of plain text
Fragments ==
    { << "lt", "div", "sp", "MU", "gt", "para" >>,     \* a user message
      << "lt", "div", "sp", "MA", "gt", "parb" >>,     \* an assistant message
      << "lt", "div", "sp", "MUC", "gt", "hi" >>,      \* role written "USER"
      << "lt", "div", "sp", "MA", "gt", "copy" >>,     \* only a UI label inside
      << "para", "nl", "nl", "parb" >>,                \* two paragraphs
      << "nl", "nl", "paraA" >>,                       \* a paragraph naming a role
      << "nl", "hr", "nl" >>,                          \* a horizontal rule line
      << "nl", "hdr", "nl" >>,                         \* a "#N" header line
      << "nl", "labA", "nl" >>,                        \* a role-label line
      << "so", "jrA", "jcP", "sc" >>,                  \* a script with one message
      << "so", "jrU", "jcBad", "sc" >>,                \* a malformed JSON fragment
      << "so", "jrU", "jcE", "sc" >>,                  \* a message with empty content
      << "MU", "sp" >>,                                \* a marker outside any tag
      << "lt", "div", "gt" >>,                         \* a tag without marker
      << "e_lt", "hi", "e_gt" >>,                      \* escaped angle brackets
      << "hi" >> }

RECURSIVE DocsOf(_)
DocsOf(n) ==
    IF n = 0 THEN { << >> }
    ELSE LET shorter == DocsOf(n - 1)
         IN  shorter \cup { d \o f : d \in shorter, f \in Fragments }

Docs == DocsOf(MaxFrags)

\* A strategy's slot in extract_messages_any: not run, run (with the list it
\* returned), or left by an exception
NotRun == [run |-> "no", results |-> << >>]
Ran(res) == [run |-> "yes", results |-> res]
Raised == [run |-> "raised", results |-> << >>]

NoPairs == [returned |-> FALSE, list |-> << >>]
Returned(list) == [returned |-> TRUE, list |-> list]

NoResponse == [status |-> 0, ok |-> FALSE, count |-> 0, messages |-> << >>]

NoHost == [kind |-> "name", name |-> "", addr |-> << >>]
NoAllowList == [set |-> FALSE, hosts |-> {}]         \* ALLOWED_HOSTS = None
NoAnswer == [fail |-> TRUE, ips |-> {}]
FetchIdle ==
    /\ host = NoHost /\ scheme = "" /\ ALLOWED_HOSTS = NoAllowList
    /\ dns = NoAnswer /\ sent = << >>
NoBody == [chunks |-> << >>, endless |-> FALSE]
ReadIdle == MAX_BYTES = 0 /\ body = NoBody /\ total = 0 /\ chunks = << >>
NoText == [strip |-> << >>, clean |-> << >>]
NormIdle == text0 = << >> /\ text1 = NoText /\ text2 = NoText
ExtractIdle ==
    /\ raw_html = << >> /\ a = NotRun /\ b = NotRun /\ c = NotRun
    /\ pairs = NoPairs /\ response = NoResponse

fetchVars == << host, scheme, ALLOWED_HOSTS, dns, sent >>
readVars == << MAX_BYTES, body, total, chunks >>
normVars == << text0, text1, text2 >>
extractVars == << raw_html, a, b, c, pairs, response >>

Init ==
    /\ raw_html \in Docs
    /\ pc = "start"
    /\ a = NotRun /\ b = NotRun /\ c = NotRun
    /\ pairs = NoPairs /\ response = NoResponse
    /\ FetchIdle /\ ReadIdle /\ NormIdle

\* if len(a) >= 2: return a
AnchorAccepted(res) == Len(res) >= 2

PlainAccepted_off_by_one(res) == Len(res) > 2
\* if len(b) >= 2: return b
PlainAccepted(res) == Len(res) >= 2

JsonReturned_merged(ra, rb, rc) == ra \o rc
\* c = extract_messages_json(raw_html); return c
JsonReturned(ra, rb, rc) == rc

\* a = extract_messages_html(raw_html)
TryAnchor ==
    /\ pc = "start"
    /\ a' = Ran(extract_messages_html(raw_html))
    /\ IF AnchorAccepted(a'.results)
       THEN pairs' = Returned(a'.results) /\ pc' = "respond"
       ELSE pairs' = pairs /\ pc' = "triedA"
    /\ UNCHANGED << raw_html, b, c, response, fetchVars, readVars, normVars >>

\* except Exception as e: return jsonify(ok=False, error=str(e)), 400
ErrorResponse == [status |-> 400, ok |-> FALSE, count |-> 0, messages |-> << >>]

\* b = extract_messages_plain(raw_html); an exception raised inside it leaves
\* extract_messages_any and is caught by api_extract's except Exception.
TryPlain ==
    /\ pc = "triedA"
    /\ LET r == extract_messages_plain(raw_html)
       IN  IF r.raised
           THEN /\ b' = Raised
                /\ pairs' = pairs
                /\ response' = ErrorResponse
                /\ pc' = "done"
           ELSE /\ b' = Ran(r.results)
                /\ response' = response
                /\ IF PlainAccepted(r.results)
                   THEN pairs' = Returned(r.results) /\ pc' = "respond"
                   ELSE pairs' = pairs /\ pc' = "triedB"
    /\ UNCHANGED << raw_html, a, c, fetchVars, readVars, normVars >>

TryJson ==
    /\ pc = "triedB"
    /\ c' = Ran(extract_messages_json(raw_html))
    /\ pairs' = Returned(JsonReturned(a.results, b.results, c'.results))
    /\ pc' = "respond"
    /\ UNCHANGED << raw_html, a, b, response, fetchVars, readVars, normVars >>

\* messages = [{"idx": i+1, "role": r, "text": t} for i, (r, t) in enumerate(pairs)]
Messages(ps) ==
    [i \in 1..Len(ps) |-> [idx |-> i, role |-> ps[i].role, text |-> ps[i].text]]

\* return jsonify(ok=True, count=len(messages), messages=messages)
Respond ==
    /\ pc = "respond"
    /\ response' = [status |-> 200, ok |-> TRUE, count |-> Len(Messages(pairs.list)),
                    messages |-> Messages(pairs.list)]
    /\ pc' = "done"
    /\ UNCHANGED << raw_html, a, b, c, pairs, fetchVars, readVars, normVars >>

Next == TryAnchor \/ TryPlain \/ TryJson \/ Respond

Spec == Init /\ [][Next]_vars

(***************************************************************************)
(* Claims about extract_messages_any and api_extract, checked under Spec.  *)
(***************************************************************************)
\* C1 as stated: when the handler has answered with a list, the anchor
\* strategy found fewer than 2 messages and the embedded-JSON strategy finds
\* at least 1, the list returned is the embedded-JSON result.
C1_JsonBeforeHeuristic ==
    (/\ pc = "done" /\ response.ok
     /\ Len(extract_messages_html(raw_html)) < 2
     /\ Len(extract_messages_json(raw_html)) >= 1)
    => pairs.list = extract_messages_json(raw_html)

\* C1 amended: the order is anchor, heuristic text, embedded JSON.  Whenever a
\* list is returned it is the anchor result if that has 2 or more messages,
\* else the heuristic text result if that has 2 or more messages, else the
\* embedded-JSON result; the JSON strategy decides only when the heuristic
\* text strategy was not accepted.
C1_AnchorPlainJson ==
    pairs.returned =>
        LET ra == extract_messages_html(raw_html)
            rb == extract_messages_plain(raw_html).results
            rc == extract_messages_json(raw_html)
        IN  pairs.list = IF Len(ra) >= 2 THEN ra
                         ELSE IF Len(rb) >= 2 THEN rb
                         ELSE rc

\* a document on which JSON finds a message and the heuristic text result wins
C1_Witness ==
    /\ pc = "done" /\ response.ok
    /\ Len(a.results) < 2
    /\ Len(extract_messages_json(raw_html)) >= 1
    /\ Len(b.results) >= 2
    /\ pairs.list = b.results
    /\ pairs.list # extract_messages_json(raw_html)

\* C2: the returned list is the unmodified output of exactly one strategy.
\* With 2 or more anchor messages it is the anchor output and no later
\* strategy has run; with 0 or 1 the anchor output is discarded and the list
\* is the output of the one later strategy that was accepted.
C2_SingleStrategy ==
    pairs.returned =>
        \/ /\ Len(a.results) >= 2 /\ pairs.list = a.results
           /\ b = NotRun /\ c = NotRun
        \/ /\ a.run = "yes" /\ Len(a.results) < 2
           /\ b.run = "yes" /\ Len(b.results) >= 2 /\ pairs.list = b.results
           /\ c = NotRun
        \/ /\ a.run = "yes" /\ Len(a.results) < 2
           /\ b.run = "yes" /\ Len(b.results) < 2
           /\ c.run = "yes" /\ pairs.list = c.results

\* one anchor message found and discarded, the list comes from the scripts
C2_Witness ==
    /\ pc = "done"
    /\ Len(a.results) = 1
    /\ c.run = "yes" /\ Len(c.results) >= 1
    /\ pairs.list = c.results
    /\ \A k \in 1..Len(pairs.list) : pairs.list[k] # a.results[1]

\* C5 as stated: no document makes the extraction raise; the handler always
\* answers 200 with ok = true (and an empty list when nothing is found).
C5_NeverRaises ==
    pc = "done" => (response.status = 200 /\ response.ok)

\* C6 as stated: the list the embedded-JSON strategy returns holds no
\* (role, text) pair twice.
C6_JsonDeduplicated ==
    c.run = "yes" =>
        \A i, j \in 1..Len(c.results) : i # j => c.results[i] # c.results[j]

\* The markers of a document as C7 describes them, independently of the loop
\* of extract_messages_html: their indices in document order, the ">" that
\* closes the tag a marker stands in, and the span that follows it.
MarkerSet(d) == { i \in 1..Len(d) : d[i] \in {"MU", "MA", "MUC"} }
NthMarker(d, k) ==
    CHOOSE i \in MarkerSet(d) : Cardinality({ m \in MarkerSet(d) : m < i }) = k - 1
ClaimedRole(t) == IF t = "MA" THEN "assistant" ELSE "user"
ClosingGt(d, i) ==
    LET after == { g \in (i + 1)..Len(d) : d[g] = "gt" }
    IN  IF after = {} THEN 0 ELSE Min(after)
SpanEnd(d, i) ==
    LET later == { m \in MarkerSet(d) : m > i }
    IN  IF later = {} THEN Len(d) ELSE Min(later) - 1
SpanText(d, i) == _post_clean(_strip_html(Slice(d, ClosingGt(d, i) + 1, SpanEnd(d, i))))
\* the marker stands in an opening tag: a "<" before it, the ">" after it,
\* and between them no other "<", ">" or marker
InOpeningTag(d, i) ==
    /\ ClosingGt(d, i) # 0
    /\ \E l \in 1..(i - 1) :
          /\ d[l] = "lt"
          /\ \A m \in (l + 1)..ClosingGt(d, i) :
                m \notin {i, ClosingGt(d, i)} =>
                    (~HasGt(d[m]) /\ d[m] # "lt" /\ m \notin MarkerSet(d))
WellFormedMarkers(d) ==
    \A i \in MarkerSet(d) : InOpeningTag(d, i) /\ SpanText(d, i) # << >>

\* C7: on a document with N >= 2 well-formed role markers, each followed by
\* content that normalises to a non-empty text, the anchor strategy returns
\* exactly N messages in document order, the k-th with the role of the k-th
\* marker (in lower case) and the normalised text of the span from just after
\* the ">" that follows the marker to the start of the next marker (or the
\* end of the document).
C7_AnchorMessages ==
    (/\ a.run = "yes"
     /\ Cardinality(MarkerSet(raw_html)) >= 2
     /\ WellFormedMarkers(raw_html))
    => a.results =
          [k \in 1..Cardinality(MarkerSet(raw_html)) |->
              [role |-> ClaimedRole(raw_html[NthMarker(raw_html, k)]),
               text |-> SpanText(raw_html, NthMarker(raw_html, k))]]

\* three well-formed markers, one of them written "USER", three messages
C7_Witness ==
    /\ a.run = "yes"
    /\ Cardinality(MarkerSet(raw_html)) = 3
    /\ WellFormedMarkers(raw_html)
    /\ \E i \in MarkerSet(raw_html) : raw_html[i] = "MUC"
    /\ Len(a.results) = 3
    /\ a.results[1].text # a.results[3].text

\* C8: every message a strategy produced, and every message of the returned
\* list, has role "user" or "assistant" and a non-empty text; the messages of
\* a successful response are the returned pairs in order, numbered 1..N.
GoodMessage(m) == m.role \in {"user", "assistant"} /\ m.text # << >>
C8_RolesTextsIdx ==
    /\ \A k \in 1..Len(a.results) : GoodMessage(a.results[k])
    /\ \A k \in 1..Len(b.results) : GoodMessage(b.results[k])
    /\ \A k \in 1..Len(c.results) : GoodMessage(c.results[k])
    /\ \A k \in 1..Len(pairs.list) : GoodMessage(pairs.list[k])
    /\ response.ok =>
          /\ response.count = Len(pairs.list)
          /\ Len(response.messages) = Len(pairs.list)
          /\ \A k \in 1..Len(response.messages) :
                /\ response.messages[k].idx = k
                /\ response.messages[k].role = pairs.list[k].role
                /\ response.messages[k].text = pairs.list[k].text

\* a response of three numbered messages, one from a marker written "USER"
C8_Witness ==
    /\ pc = "done" /\ response.ok
    /\ response.count = 3
    /\ response.messages[3].idx = 3
    /\ \E i \in 1..Len(raw_html) : raw_html[i] = "MUC"
    /\ \A k \in 1..3 : response.messages[k].role \in {"user", "assistant"}

(***************************************************************************)
(* _is_ip_private, _host_ok, _safe_fetch                                   *)
(***************************************************************************)
\* An address is the sequence of its octets (4 for IPv4, 16 for IPv6).
Net(addr, prefix) == [addr |-> addr, prefix |-> prefix]

Zero16 == [k \in 1..16 |-> 0]

PRIVATE_NETS_without_link_local ==
    << Net(<< 0, 0, 0, 0 >>, 8),
       Net(<< 10, 0, 0, 0 >>, 8),
       Net(<< 127, 0, 0, 0 >>, 8),
       Net(<< 172, 16, 0, 0 >>, 12),
       Net(<< 192, 168, 0, 0 >>, 16),
       Net([Zero16 EXCEPT ![16] = 1], 128),
       Net([Zero16 EXCEPT ![1] = 252], 7),
       Net([Zero16 EXCEPT ![1] = 254, ![2] = 128], 10) >>

PRIVATE_NETS ==
    << Net(<< 0, 0, 0, 0 >>, 8),
       Net(<< 10, 0, 0, 0 >>, 8),
       Net(<< 127, 0, 0, 0 >>, 8),
       Net(<< 169, 254, 0, 0 >>, 16),
       Net(<< 172, 16, 0, 0 >>, 12),
       Net(<< 192, 168, 0, 0 >>, 16),
       Net([Zero16 EXCEPT ![16] = 1], 128),
       Net([Zero16 EXCEPT ![1] = 252], 7),
       Net([Zero16 EXCEPT ![1] = 254, ![2] = 128], 10) >>

RECURSIVE Pow2(_)
Pow2(n) == IF n = 0 THEN 1 ELSE 2 * Pow2(n - 1)

\* addr in net: same address family and the first net.prefix bits agree
InNet(addr, net) ==
    /\ Len(addr) = Len(net.addr)
    /\ \A k \in 1..Len(addr) :
          LET bits == IF net.prefix >= 8 * k THEN 8
                      ELSE IF net.prefix <= 8 * (k - 1) THEN 0
                      ELSE net.prefix - 8 * (k - 1)
          IN  addr[k] \div Pow2(8 - bits) = net.addr[k] \div Pow2(8 - bits)

\* getaddrinfo gives addresses that ipaddress.ip_address parses, so the
\* except branch (return True) is not taken for them.
_is_ip_private(ip) ==
    \E n \in 1..Len(PRIVATE_NETS) : InNet(ip, PRIVATE_NETS[n])

LiteralHost(addr) == [kind |-> "ip", name |-> "", addr |-> addr]
NamedHost(name) == [kind |-> "name", name |-> name, addr |-> << >>]

\* socket.getaddrinfo(h, None): a literal address answers itself; a name is
\* answered by the resolver (answer), which may fail.
GetAddrInfo(h, answer) ==
    IF h.kind = "ip" THEN [fail |-> FALSE, ips |-> { h.addr }] ELSE answer

_host_ok(h, allowed, answer) ==
    IF h.kind = "name" /\ h.name = "" THEN FALSE
    ELSE IF h.kind = "name" /\ h.name \in {"localhost", "localhost.", "ip6-localhost"}
         THEN FALSE
    ELSE IF allowed.set /\ h \notin allowed.hosts THEN FALSE
    ELSE LET infos == GetAddrInfo(h, answer)
         IN  IF infos.fail THEN FALSE
             ELSE IF infos.ips = {} THEN FALSE
             ELSE ~ \E ip \in infos.ips : _is_ip_private(ip)

MaxRedirects == 2   \* redirects the model lets one fetch follow

\* octets the literal hosts of the model are built from
Octet1 == {8, 10, 11, 127, 169, 172, 192}
Octet2 == {0, 15, 16, 31, 32, 168, 169, 254, 255}
Octet3 == {0, 169}
Octet4 == {1, 254}

Hosts ==
    { LiteralHost(<< o1, o2, o3, o4 >>) :
        o1 \in Octet1, o2 \in Octet2, o3 \in Octet3, o4 \in Octet4 }
    \cup { LiteralHost([Zero16 EXCEPT ![16] = 1]) }
    \cup { NamedHost(n) : n \in {"", "localhost", "chatgpt.com", "intranet.corp"} }

PublicAddr == << 8, 8, 8, 8 >>
InternalAddr == << 10, 0, 0, 7 >>
DnsAnswers ==
    { [fail |-> TRUE, ips |-> {}],
      [fail |-> FALSE, ips |-> {}],
      [fail |-> FALSE, ips |-> { PublicAddr }],
      [fail |-> FALSE, ips |-> { InternalAddr }],
      [fail |-> FALSE, ips |-> { PublicAddr, InternalAddr }] }

RedirectTargets ==
    { LiteralHost(<< 127, 0, 0, 1 >>), LiteralHost(<< 169, 254, 169, 254 >>),
      NamedHost("chatgpt.com") }

InitFetch ==
    /\ pc = "fetch_start"
    /\ host \in Hosts
    /\ scheme \in {"http", "https", "ftp"}
    /\ ALLOWED_HOSTS \in
          { NoAllowList,
            [set |-> TRUE, hosts |-> {}],
            [set |-> TRUE, hosts |-> { host }],
            [set |-> TRUE, hosts |-> { NamedHost("chatgpt.com") }],
            [set |-> TRUE, hosts |-> { host, NamedHost("chatgpt.com") }] }
    /\ dns \in IF host.kind = "ip" THEN { GetAddrInfo(host, NoAnswer) } ELSE DnsAnswers
    /\ sent = << >>
    /\ ExtractIdle /\ ReadIdle /\ NormIdle

\* _safe_fetch up to requests.get: the scheme and host checks; either raises
\* ValueError before any request is made
CheckUrl ==
    /\ pc = "fetch_start"
    /\ pc' = IF scheme \notin {"http", "https"} THEN "fetch_rejected"
             ELSE IF ~_host_ok(host, ALLOWED_HOSTS, dns) THEN "fetch_rejected"
             ELSE "fetch_send"
    /\ UNCHANGED << fetchVars, extractVars, readVars, normVars >>

\* requests.get(url, ..., allow_redirects=True): the first request
SendRequest ==
    /\ pc = "fetch_send"
    /\ sent' = Append(sent, host)
    /\ pc' = "fetch_wait"
    /\ UNCHANGED << host, scheme, ALLOWED_HOSTS, dns, extractVars, readVars, normVars >>

\* the server answers 3xx and requests follows the Location itself
FollowRedirect ==
    /\ pc = "fetch_wait"
    /\ Len(sent) <= MaxRedirects
    /\ \E t \in RedirectTargets : sent' = Append(sent, t)
    /\ UNCHANGED << pc, host, scheme, ALLOWED_HOSTS, dns, extractVars, readVars, normVars >>

\* the final answer; r.raise_for_status() raises HTTPError on 4xx / 5xx
ServerAnswers ==
    /\ pc = "fetch_wait"
    /\ \E status \in {200, 404, 500} :
          pc' = IF status >= 400 THEN "fetch_http_error" ELSE "fetch_ok"
    /\ UNCHANGED << fetchVars, extractVars, readVars, normVars >>

\* a connection error or the timeout: requests raises
TransportFails ==
    /\ pc = "fetch_wait"
    /\ pc' = "fetch_failed"
    /\ UNCHANGED << fetchVars, extractVars, readVars, normVars >>

NextFetch == CheckUrl \/ SendRequest \/ FollowRedirect \/ ServerAnswers \/ TransportFails

SpecFetch == InitFetch /\ [][NextFetch]_vars

\* The addresses C3 names: 127.0.0.1, 169.254.169.254 and the RFC1918 ranges
ClaimedInternal(h) ==
    /\ h.kind = "ip" /\ Len(h.addr) = 4
    /\ \/ h.addr = << 127, 0, 0, 1 >>
       \/ h.addr = << 169, 254, 169, 254 >>
       \/ h.addr[1] = 10
       \/ h.addr[1] = 172 /\ h.addr[2] \in 16..31
       \/ h.addr[1] = 192 /\ h.addr[2] = 168

\* C3: a fetch whose host is one of these literal addresses is rejected and
\* sends no request, whatever ALLOWED_HOSTS is.
C3_InternalLiteralRejected ==
    ClaimedInternal(host) =>
        /\ sent = << >>
        /\ pc \in {"fetch_start", "fetch_rejected"}

\* the metadata address, listed in ALLOWED_HOSTS, rejected all the same
C3_Witness ==
    /\ host = LiteralHost(<< 169, 254, 169, 254 >>)
    /\ scheme = "https"
    /\ ALLOWED_HOSTS.set /\ host \in ALLOWED_HOSTS.hosts
    /\ pc = "fetch_rejected"
    /\ sent = << >>

\* h passes _host_ok under the configured ALLOWED_HOSTS for the resolver
\* answer of this fetch or for some answer a resolver can give
PassesHostOk(h) ==
    \E answer \in DnsAnswers \cup { dns } : _host_ok(h, ALLOWED_HOSTS, answer)

\* C11 as stated: every host a request of the fetch has been sent to, the
\* host of the initial URL and every redirect target followed, has passed
\* _host_ok.
C11_EveryRequestedHostValidated ==
    \A k \in 1..Len(sent) : PassesHostOk(sent[k])

(***************************************************************************)
(* _read_text                                                              *)
(***************************************************************************)
CHUNK == 8192       \* resp.iter_content(8192)
MaxChunks == 4      \* chunks a finite body of the model is delivered in

\* lengths of the chunks iter_content(8192) yields: requests is taken to
\* deliver at most the chunk size asked for; an empty chunk is skipped
ChunkLens == {0, 1, CHUNK - 1, CHUNK}
MaxBytesChoices == {0, 1, CHUNK, 2 * CHUNK, 20000}

RECURSIVE SeqsUpTo(_, _)
SeqsUpTo(S, n) ==
    IF n = 0 THEN { << >> }
    ELSE LET shorter == SeqsUpTo(S, n - 1)
         IN  shorter \cup { Append(q, x) : q \in shorter, x \in S }

RECURSIVE Sum(_)
Sum(q) == IF q = << >> THEN 0 ELSE Head(q) + Sum(Tail(q))

InitRead ==
    /\ pc = "read_loop"
    /\ MAX_BYTES \in MaxBytesChoices
    /\ body \in [chunks : SeqsUpTo(ChunkLens, MaxChunks), endless : BOOLEAN]
    /\ total = 0
    /\ chunks = << >>
    /\ ExtractIdle /\ FetchIdle /\ NormIdle

TooLarge_at_limit(t, limit) == t >= limit
\* if total > MAX_BYTES: raise ValueError
TooLarge(t, limit) == t > limit

\* one turn of "for chunk in resp.iter_content(8192)": the next chunk of the
\* body, or, from an endless stream that has delivered its listed chunks,
\* one more full chunk
ReadChunk ==
    /\ pc = "read_loop"
    /\ body.chunks # << >> \/ body.endless
    /\ LET n == IF body.chunks # << >> THEN Head(body.chunks) ELSE CHUNK
       IN  /\ body' = IF body.chunks # << >>
                      THEN [body EXCEPT !.chunks = Tail(body.chunks)]
                      ELSE body
           /\ IF n > 0
              THEN /\ chunks' = Append(chunks, n)
                   /\ total' = total + n
                   /\ pc' = IF TooLarge(total', MAX_BYTES)
                            THEN "read_too_large" ELSE "read_loop"
              ELSE UNCHANGED << chunks, total, pc >>
    /\ UNCHANGED << MAX_BYTES, extractVars, fetchVars, normVars >>

\* the stream is exhausted: b"".join(chunks) and decode(errors="replace"),
\* which does not raise
ReadEnd ==
    /\ pc = "read_loop"
    /\ body.chunks = << >> /\ ~body.endless
    /\ pc' = "read_done"
    /\ UNCHANGED << readVars, extractVars, fetchVars, normVars >>

NextRead == ReadChunk \/ ReadEnd

SpecRead == InitRead /\ [][NextRead]_vars

\* C4: every chunk appended has at most 8192 bytes and total counts them; the
\* bytes accumulated never exceed MAX_BYTES plus one chunk; the read is
\* aborted in the very turn in which total first exceeds MAX_BYTES (so no
\* chunk is read past that one), endless streams included; and a body of at
\* most MAX_BYTES bytes is never rejected.
C4_BoundedRead ==
    /\ \A k \in 1..Len(chunks) : chunks[k] <= 8192
    /\ total = Sum(chunks)
    /\ total <= MAX_BYTES + 8192
    /\ total > MAX_BYTES => pc = "read_too_large"
    /\ pc = "read_too_large" =>
          /\ total > MAX_BYTES
          /\ total - chunks[Len(chunks)] <= MAX_BYTES
          /\ body.endless \/ total + Sum(body.chunks) > MAX_BYTES
    /\ pc = "read_done" => total <= MAX_BYTES

\* an endless stream cut off one full chunk above the ceiling
C4_Witness ==
    /\ pc = "read_too_large"
    /\ body.endless
    /\ MAX_BYTES = 2 * 8192
    /\ total = MAX_BYTES + 8192
    /\ Len(chunks) = 3

(***************************************************************************)
(* The normaliser applied to its own output                                *)
(***************************************************************************)
MaxNormLen == 3     \* literals in a normaliser input

NormAlphabet == {"e_lt", "e_gt", "e_amplt", "hi", "lt", "gt", "sp", "nl", "copy"}

InitNorm ==
    /\ pc = "norm0"
    /\ text0 \in SeqsUpTo(NormAlphabet, MaxNormLen)
    /\ text1 = NoText /\ text2 = NoText
    /\ ExtractIdle /\ FetchIdle /\ ReadIdle

\* _strip_html(x) and _post_clean(_strip_html(x))
NormalizeOnce ==
    /\ pc = "norm0"
    /\ text1' = [strip |-> _strip_html(text0), clean |-> _post_clean(_strip_html(text0))]
    /\ pc' = "norm1"
    /\ UNCHANGED << text0, text2, extractVars, fetchVars, readVars >>

\* the same two normalisers applied to their own outputs
NormalizeAgain ==
    /\ pc = "norm1"
    /\ text2' = [strip |-> _strip_html(text1.strip),
                 clean |-> _post_clean(_strip_html(text1.clean))]
    /\ pc' = "norm2"
    /\ UNCHANGED << text0, text1, extractVars, fetchVars, readVars >>

NextNorm == NormalizeOnce \/ NormalizeAgain

SpecNorm == InitNorm /\ [][NextNorm]_vars

\* C9 as stated: normalising a normalised text changes nothing, for
\* _strip_html and for _strip_html followed by _post_clean.
C9_Idempotent ==
    pc = "norm2" => text2 = text1

(***************************************************************************)
(* extract_messages_plain on plain text                                    *)
(***************************************************************************)
MaxBlocks == 4      \* blocks of text in a plain document

PlainBlocks == {"para", "paraA", "paraU", "paraAU", "hi"}
PlainSeparators == { << "nl", "nl" >>, << "nl", "labA", "nl" >> }

RECURSIVE PlainDocsOf(_)
PlainDocsOf(n) ==
    IF n = 1 THEN { << t >> : t \in PlainBlocks }
    ELSE LET shorter == PlainDocsOf(n - 1)
         IN  shorter \cup { d \o sep \o << t >> :
                              d \in shorter, sep \in PlainSeparators, t \in PlainBlocks }

InitPlain ==
    /\ pc = "plain_call"
    /\ raw_html \in PlainDocsOf(MaxBlocks)
    /\ a = NotRun /\ b = NotRun /\ c = NotRun
    /\ pairs = NoPairs /\ response = NoResponse
    /\ FetchIdle /\ ReadIdle /\ NormIdle

CallPlain ==
    /\ pc = "plain_call"
    /\ LET r == extract_messages_plain(raw_html)
       IN  b' = IF r.raised THEN Raised ELSE Ran(r.results)
    /\ pc' = "plain_returned"
    /\ UNCHANGED << raw_html, a, c, pairs, response, fetchVars, readVars, normVars >>

NextPlain == CallPlain

SpecPlain == InitPlain /\ [][NextPlain]_vars

\* The roles C10 describes, over the blocks that survive the length floor
\* (the whole text must have 50 characters and two blocks must survive):
\* a block that names a role takes that role ("assistant" first), any other
\* block takes the current role; the current role starts as "user".  With
\* always = FALSE the current role toggles only after a block that names no
\* role (and stays the named role after one that does); with always = TRUE it
\* toggles after every emitted block.
RECURSIVE LongEnough(_)
LongEnough(bls) ==
    IF bls = << >> THEN << >>
    ELSE (IF StrLen(Head(bls)) >= 8 THEN << Head(bls) >> ELSE << >>)
            \o LongEnough(Tail(bls))

Survivors(raw) ==
    LET bs == Blocks(_strip_html(raw))
    IN  LongEnough([k \in 1..Len(bs) |-> Strip(bs[k].s, Space)])

NamesAssistant(bl) == \E k \in 1..Len(bl) : bl[k] \in {"paraA", "paraAU"}
NamesUser(bl) == \E k \in 1..Len(bl) : bl[k] \in {"paraU", "paraAU"}

RECURSIVE ClaimedRoles(_, _, _)
ClaimedRoles(bls, current, always) ==
    IF bls = << >> THEN << >>
    ELSE LET named == NamesAssistant(Head(bls)) \/ NamesUser(Head(bls))
             role == IF NamesAssistant(Head(bls)) THEN "assistant"
                     ELSE IF NamesUser(Head(bls)) THEN "user"
                     ELSE current
             toggled == IF role = "user" THEN "assistant" ELSE "user"
             next == IF named /\ ~always THEN role ELSE toggled
         IN  << role >> \o ClaimedRoles(Tail(bls), next, always)

ClaimedPlain(raw, always) ==
    LET bls == Survivors(raw)
        roles == ClaimedRoles(bls, "user", always)
    IN  IF StrLen(_strip_html(raw)) >= 50 /\ Len(bls) >= 2
        THEN [k \in 1..Len(bls) |-> [role |-> roles[k], text |-> bls[k]]]
        ELSE << >>

\* C10 as stated: the current role toggles after a block without role
\* signal only; after a block that names a role it is that role.
C10_TogglesWithoutSignalOnly ==
    b.run = "yes" => b.results = ClaimedPlain(raw_html, FALSE)

\* C10 amended: the current role toggles after every emitted block, with or
\* without role signal; short blocks are skipped and leave it alone; three
\* blocks without signal come out as user, assistant, user.
C10_TogglesAfterEveryBlock ==
    b.run = "yes" =>
        /\ b.results = ClaimedPlain(raw_html, TRUE)
        /\ raw_html = << "para", "nl", "nl", "para", "nl", "nl", "para" >>
              => [k \in 1..Len(b.results) |-> b.results[k].role]
                    = << "user", "assistant", "user" >>

\* a block naming the assistant, a short block, then a block without signal
\* that comes out as user
C10_Witness ==
    /\ pc = "plain_returned"
    /\ raw_html = << "paraA", "nl", "nl", "hi", "nl", "nl", "para" >>
    /\ Len(b.results) = 2
    /\ b.results[1].role = "assistant"
    /\ b.results[2].role = "user"

====
